---------------------------- MODULE Spec2Model ----------------------------
(***************************************************************************)
(* Model of the ledger engine of transaction_engine:                       *)
(* process_transactions (src/transaction_engine/inner.rs) folds validated  *)
(* transactions, one at a time and in arrival order, into                  *)
(*   clients                   : HashMap<ClientId, ClientInfo>             *)
(*   deposit_transactions_seen : HashMap<TransactionId,                    *)
(*                                 (ClientId, AmountType, UnderDispute)>   *)
(* The loop of process_transactions_and_return_client_states               *)
(* (transaction_processing_logic.rs) is the same code with other names.    *)
(* Amounts are counted in units of 0.0001 (the validator rounds every      *)
(* amount to 4 decimal places), so Decimal arithmetic on them is exact     *)
(* integer arithmetic here.                                                *)
(***************************************************************************)
EXTENDS Integers, FiniteSets, Sequences, TLC

\* ------------------------------------------------------------------ bounds
MaxClient == 2
MaxTx     == 2
MaxAmount == 1
MaxTxns   == 6
\* length of the csv input of process_transactions_and_return_csv_result
MaxRecords == 3

ClientIds == 1..MaxClient
TxIds     == 1..MaxTx
\* try_from accepts a raw amount a with 0 < a and stores a.round_dp(4); a raw
\* amount below half a unit rounds to 0, so the engine can be handed 0.
Amounts   == 0..MaxAmount

DEPOSIT    == "deposit"
WITHDRAWAL == "withdrawal"
DISPUTE    == "dispute"
RESOLVE    == "resolve"
CHARGEBACK == "chargeback"

\* const DECIMAL_PORTION_LEN: u32 = 4
DECIMAL_PORTION_LEN == 4

\* raw csv amounts carry one decimal place more than the validator keeps, so
\* they are counted in units of 0.00001
RawDecimals == DECIMAL_PORTION_LEN + 1

VARIABLES clients, deposit_transactions_seen, last, prev, hist, processed,
          record, valid_only, csv_output, pc, audit, solo

vars == <<clients, deposit_transactions_seen, last, prev, hist, processed,
          record, valid_only, csv_output, pc, audit, solo>>

engine_vars == <<clients, deposit_transactions_seen, last, prev, hist, processed>>

stream_vars == <<record, valid_only, csv_output, pc>>

audit_vars == <<audit, solo>>

\* ------------------------------------------------------------ the program

\* #[derive(Default)] ClientInfo
ClientInfoDefault == [available |-> 0, held |-> 0, locked |-> FALSE]

\* clients.entry(client).or_default()
Entry(cl, client) ==
    IF client \in DOMAIN cl THEN cl ELSE cl @@ (client :> ClientInfoDefault)

Result(cl, ds, outcome) == [clients |-> cl, deposits |-> ds, outcome |-> outcome]

\* HashMap::insert: last write wins
Insert(ds, tx, rec) == [t \in DOMAIN ds \cup {tx} |-> IF t = tx THEN rec ELSE ds[t]]

\* HashMap::remove
Remove(ds, tx) == [t \in DOMAIN ds \ {tx} |-> ds[t]]

\* Deposit that assigns the amount instead of adding it
DepositAssign(cl, ds, client, tx, amount) ==
    [clients  |-> [cl EXCEPT ![client].available = amount],
     deposits |-> [t \in DOMAIN ds \cup {tx} |->
                     IF t = tx THEN [client |-> client, amount |-> amount, under_dispute |-> FALSE]
                     ELSE ds[t]],
     outcome  |-> "applied"]

\* Deposit that keeps the record a tx id already has (entry().or_insert())
DepositKeepsOldRecord(cl, ds, client, tx, amount) ==
    [clients  |-> [cl EXCEPT ![client].available = @ + amount],
     deposits |-> IF tx \in DOMAIN ds THEN ds
                  ELSE ds @@ (tx :> [client |-> client, amount |-> amount,
                                     under_dispute |-> FALSE]),
     outcome  |-> "applied"]

\* match arm Deposit(amount)
Deposit(cl, ds, client, tx, amount) ==
    Result([cl EXCEPT ![client].available = @ + amount],
           Insert(ds, tx, [client |-> client, amount |-> amount, under_dispute |-> FALSE]),
           "applied")

\* Withdrawal without the available < amount test
WithdrawalNoCheck(cl, ds, client, tx, amount) ==
    [clients  |-> [cl EXCEPT ![client].available = @ - amount],
     deposits |-> ds,
     outcome  |-> "applied"]

\* Withdrawal that records itself in the table of disputable transactions
WithdrawalRecorded(cl, ds, client, tx, amount) ==
    IF cl[client].available < amount
    THEN Result(cl, ds, "not_enough_funds")
    ELSE Result([cl EXCEPT ![client].available = @ - amount],
                Insert(ds, tx, [client |-> client, amount |-> amount,
                                under_dispute |-> FALSE]),
                "applied")

\* match arm Withdrawal(amount)
Withdrawal(cl, ds, client, tx, amount) ==
    IF cl[client].available < amount
    THEN Result(cl, ds, "not_enough_funds")
    ELSE Result([cl EXCEPT ![client].available = @ - amount], ds, "applied")

\* Dispute without the available < deposit_amount test
DisputeNoFundsCheck(cl, ds, client, tx) ==
    IF tx \notin DOMAIN ds THEN Result(cl, ds, "no_deposit")
    ELSE IF ds[tx].under_dispute THEN Result(cl, ds, "already_under_dispute")
    ELSE IF client # ds[tx].client THEN Result(cl, ds, "client_mismatch")
    ELSE Result([cl EXCEPT ![client].available = @ - ds[tx].amount,
                           ![client].held = @ + ds[tx].amount],
                [ds EXCEPT ![tx].under_dispute = TRUE],
                "applied")

\* Dispute without the client != deposit_client test
DisputeNoOwnerCheck(cl, ds, client, tx) ==
    IF tx \notin DOMAIN ds THEN Result(cl, ds, "no_deposit")
    ELSE IF ds[tx].under_dispute THEN Result(cl, ds, "already_under_dispute")
    ELSE IF cl[client].available < ds[tx].amount THEN Result(cl, ds, "not_enough_funds")
    ELSE Result([cl EXCEPT ![client].available = @ - ds[tx].amount,
                           ![client].held = @ + ds[tx].amount],
                [ds EXCEPT ![tx].under_dispute = TRUE],
                "applied")

\* Dispute that takes the funds from available without holding them
DisputeNoHold(cl, ds, client, tx) ==
    IF tx \notin DOMAIN ds THEN Result(cl, ds, "no_deposit")
    ELSE IF ds[tx].under_dispute THEN Result(cl, ds, "already_under_dispute")
    ELSE IF client # ds[tx].client THEN Result(cl, ds, "client_mismatch")
    ELSE IF cl[client].available < ds[tx].amount THEN Result(cl, ds, "not_enough_funds")
    ELSE Result([cl EXCEPT ![client].available = @ - ds[tx].amount],
                [ds EXCEPT ![tx].under_dispute = TRUE],
                "applied")

\* Dispute that holds the funds of the client that made the deposit, whoever
\* sent the Dispute
DisputeOnOwner(cl, ds, client, tx) ==
    IF tx \notin DOMAIN ds THEN Result(cl, ds, "no_deposit")
    ELSE IF ds[tx].under_dispute THEN Result(cl, ds, "already_under_dispute")
    ELSE IF cl[ds[tx].client].available < ds[tx].amount
    THEN Result(cl, ds, "not_enough_funds")
    ELSE Result([cl EXCEPT ![ds[tx].client].available = @ - ds[tx].amount,
                           ![ds[tx].client].held = @ + ds[tx].amount],
                [ds EXCEPT ![tx].under_dispute = TRUE],
                "applied")

\* match arm Dispute
Dispute(cl, ds, client, tx) ==
    IF tx \notin DOMAIN ds THEN Result(cl, ds, "no_deposit")
    ELSE IF ds[tx].under_dispute THEN Result(cl, ds, "already_under_dispute")
    ELSE IF client # ds[tx].client THEN Result(cl, ds, "client_mismatch")
    ELSE IF cl[client].available < ds[tx].amount THEN Result(cl, ds, "not_enough_funds")
    ELSE Result([cl EXCEPT ![client].available = @ - ds[tx].amount,
                           ![client].held = @ + ds[tx].amount],
                [ds EXCEPT ![tx].under_dispute = TRUE],
                "applied")

\* Resolve without the !deposit_under_dispute test
ResolveNoDisputeCheck(cl, ds, client, tx) ==
    IF tx \notin DOMAIN ds THEN Result(cl, ds, "no_deposit")
    ELSE IF client # ds[tx].client THEN Result(cl, ds, "client_mismatch")
    ELSE Result([cl EXCEPT ![client].available = @ + ds[tx].amount,
                           ![client].held = @ - ds[tx].amount],
                [ds EXCEPT ![tx].under_dispute = FALSE],
                "applied")

\* Resolve that forgets *deposit_under_dispute = false
ResolveKeepsFlag(cl, ds, client, tx) ==
    IF tx \notin DOMAIN ds THEN Result(cl, ds, "no_deposit")
    ELSE IF ~ds[tx].under_dispute THEN Result(cl, ds, "not_under_dispute")
    ELSE IF client # ds[tx].client THEN Result(cl, ds, "client_mismatch")
    ELSE Result([cl EXCEPT ![client].available = @ + ds[tx].amount,
                           ![client].held = @ - ds[tx].amount],
                ds,
                "applied")

\* Resolve that forgets client_info.held -= *deposit_amount
ResolveKeepsHeld(cl, ds, client, tx) ==
    IF tx \notin DOMAIN ds THEN Result(cl, ds, "no_deposit")
    ELSE IF ~ds[tx].under_dispute THEN Result(cl, ds, "not_under_dispute")
    ELSE IF client # ds[tx].client THEN Result(cl, ds, "client_mismatch")
    ELSE Result([cl EXCEPT ![client].available = @ + ds[tx].amount],
                [ds EXCEPT ![tx].under_dispute = FALSE],
                "applied")

\* match arm Resolve
Resolve(cl, ds, client, tx) ==
    IF tx \notin DOMAIN ds THEN Result(cl, ds, "no_deposit")
    ELSE IF ~ds[tx].under_dispute THEN Result(cl, ds, "not_under_dispute")
    ELSE IF client # ds[tx].client THEN Result(cl, ds, "client_mismatch")
    ELSE Result([cl EXCEPT ![client].available = @ + ds[tx].amount,
                           ![client].held = @ - ds[tx].amount],
                [ds EXCEPT ![tx].under_dispute = FALSE],
                "applied")

\* Chargeback without the !deposit_under_dispute test
ChargebackNoDisputeCheck(cl, ds, client, tx) ==
    IF tx \notin DOMAIN ds THEN Result(cl, ds, "no_deposit")
    ELSE IF client # ds[tx].client THEN Result(cl, ds, "client_mismatch")
    ELSE Result([cl EXCEPT ![client].held = @ - ds[tx].amount,
                           ![client].locked = TRUE],
                Remove(ds, tx),
                "applied")

\* Chargeback that forgets deposit_transactions_seen.remove(&tx)
ChargebackKeepsRecord(cl, ds, client, tx) ==
    IF tx \notin DOMAIN ds THEN Result(cl, ds, "no_deposit")
    ELSE IF ~ds[tx].under_dispute THEN Result(cl, ds, "not_under_dispute")
    ELSE IF client # ds[tx].client THEN Result(cl, ds, "client_mismatch")
    ELSE Result([cl EXCEPT ![client].held = @ - ds[tx].amount,
                           ![client].locked = TRUE],
                ds,
                "applied")

\* Chargeback that only takes the held funds: no lock, no removal
ChargebackHeldOnly(cl, ds, client, tx) ==
    IF tx \notin DOMAIN ds THEN Result(cl, ds, "no_deposit")
    ELSE IF ~ds[tx].under_dispute THEN Result(cl, ds, "not_under_dispute")
    ELSE IF client # ds[tx].client THEN Result(cl, ds, "client_mismatch")
    ELSE Result([cl EXCEPT ![client].held = @ - ds[tx].amount], ds, "applied")

\* match arm Chargeback
Chargeback(cl, ds, client, tx) ==
    IF tx \notin DOMAIN ds THEN Result(cl, ds, "no_deposit")
    ELSE IF ~ds[tx].under_dispute THEN Result(cl, ds, "not_under_dispute")
    ELSE IF client # ds[tx].client THEN Result(cl, ds, "client_mismatch")
    ELSE Result([cl EXCEPT ![client].held = @ - ds[tx].amount,
                           ![client].locked = TRUE],
                Remove(ds, tx),
                "applied")

\* Loop body without the client_info.locked test
LoopBodyNoLockCheck(cl0, ds, t) ==
    LET cl == Entry(cl0, t.client) IN
    CASE t.kind = DEPOSIT    -> Deposit(cl, ds, t.client, t.tx, t.amount)
      [] t.kind = WITHDRAWAL -> Withdrawal(cl, ds, t.client, t.tx, t.amount)
      [] t.kind = DISPUTE    -> Dispute(cl, ds, t.client, t.tx)
      [] t.kind = RESOLVE    -> Resolve(cl, ds, t.client, t.tx)
      [] t.kind = CHARGEBACK -> Chargeback(cl, ds, t.client, t.tx)

\* Loop body that keeps a new account only when the transaction is applied
LoopBodyLazyAccount(cl0, ds, t) ==
    LET cl == Entry(cl0, t.client)
        r  == IF cl[t.client].locked THEN Result(cl, ds, "locked")
              ELSE CASE t.kind = DEPOSIT    -> Deposit(cl, ds, t.client, t.tx, t.amount)
                     [] t.kind = WITHDRAWAL -> Withdrawal(cl, ds, t.client, t.tx, t.amount)
                     [] t.kind = DISPUTE    -> Dispute(cl, ds, t.client, t.tx)
                     [] t.kind = RESOLVE    -> Resolve(cl, ds, t.client, t.tx)
                     [] t.kind = CHARGEBACK -> Chargeback(cl, ds, t.client, t.tx)
    IN IF r.outcome = "applied" THEN r ELSE Result(cl0, ds, r.outcome)

\* Loop body whose client_info.locked test stops Deposit and Withdrawal only
LoopBodyLockStopsFundsOnly(cl0, ds, t) ==
    LET cl == Entry(cl0, t.client) IN
    IF cl[t.client].locked /\ t.kind \in {DEPOSIT, WITHDRAWAL}
    THEN Result(cl, ds, "locked")
    ELSE CASE t.kind = DEPOSIT    -> Deposit(cl, ds, t.client, t.tx, t.amount)
           [] t.kind = WITHDRAWAL -> Withdrawal(cl, ds, t.client, t.tx, t.amount)
           [] t.kind = DISPUTE    -> Dispute(cl, ds, t.client, t.tx)
           [] t.kind = RESOLVE    -> Resolve(cl, ds, t.client, t.tx)
           [] t.kind = CHARGEBACK -> Chargeback(cl, ds, t.client, t.tx)

\* One iteration of the for loop of process_transactions.
LoopBody(cl0, ds, t) ==
    LET cl == Entry(cl0, t.client) IN
    IF cl[t.client].locked THEN Result(cl, ds, "locked")
    ELSE CASE t.kind = DEPOSIT    -> Deposit(cl, ds, t.client, t.tx, t.amount)
           [] t.kind = WITHDRAWAL -> Withdrawal(cl, ds, t.client, t.tx, t.amount)
           [] t.kind = DISPUTE    -> Dispute(cl, ds, t.client, t.tx)
           [] t.kind = RESOLVE    -> Resolve(cl, ds, t.client, t.tx)
           [] t.kind = CHARGEBACK -> Chargeback(cl, ds, t.client, t.tx)

\* struct Transaction; the three kinds without an amount carry 0 here
Transaction(kind, client, tx, amount) ==
    [kind |-> kind, client |-> client, tx |-> tx, amount |-> amount]

NoTransaction == [kind |-> "none", client |-> 0, tx |-> 0, amount |-> 0, outcome |-> "none"]

Empty == [x \in {} |-> 0]

\* --------------------------------------------------- the record validator

\* Option<AmountType>
None == [some |-> FALSE, value |-> 0]

Some(a) == [some |-> TRUE, value |-> a]

\* struct InputCsvRecord
InputCsvRecord(record_type, client, tx, amount) ==
    [record_type |-> record_type, client |-> client, tx |-> tx, amount |-> amount]

RECURSIVE Pow10(_)
Pow10(n) == IF n = 0 THEN 1 ELSE 10 * Pow10(n - 1)

\* Decimal::round_dp(dp) of a positive amount a given in units of
\* 10^-RawDecimals; the result is in units of 10^-dp.  rust_decimal rounds a
\* midpoint to the even neighbour.
round_dp(a, dp) ==
    LET m == Pow10(RawDecimals - dp)
        q == a \div m
        r == a % m
    IN IF 2 * r < m THEN q
       ELSE IF 2 * r > m THEN q + 1
       ELSE IF q % 2 = 0 THEN q ELSE q + 1

Ok(t) == [ok |-> TRUE, transaction |-> t, error |-> "none"]

Err(e) == [ok |-> FALSE, transaction |-> Transaction("none", 0, 0, 0), error |-> e]

\* verify_amount with ZERO <= a in place of ZERO < a
verify_amount_allows_zero(amount) ==
    IF ~amount.some THEN [ok |-> FALSE, amount |-> 0, error |-> "no valid amount found"]
    ELSE IF 0 <= amount.value
    THEN [ok |-> TRUE, amount |-> round_dp(amount.value, DECIMAL_PORTION_LEN), error |-> "none"]
    ELSE [ok |-> FALSE, amount |-> 0, error |-> "amount must be positive"]

\* the closure verify_amount of try_from
verify_amount(amount) ==
    IF ~amount.some THEN [ok |-> FALSE, amount |-> 0, error |-> "no valid amount found"]
    ELSE IF 0 < amount.value
    THEN [ok |-> TRUE, amount |-> round_dp(amount.value, DECIMAL_PORTION_LEN), error |-> "none"]
    ELSE [ok |-> FALSE, amount |-> 0, error |-> "amount must be positive"]

\* try_from that matches the type tag without regard to case
TryFromIgnoringCase(value) ==
    LET v   == verify_amount(value.amount)
        tag == CASE value.record_type = "Deposit"    -> DEPOSIT
                 [] value.record_type = "CHARGEBACK" -> CHARGEBACK
                 [] OTHER                            -> value.record_type
    IN CASE tag = DEPOSIT ->
              IF v.ok THEN Ok(Transaction(DEPOSIT, value.client, value.tx, v.amount))
              ELSE Err(v.error)
         [] tag = WITHDRAWAL ->
              IF v.ok THEN Ok(Transaction(WITHDRAWAL, value.client, value.tx, v.amount))
              ELSE Err(v.error)
         [] tag = DISPUTE    -> Ok(Transaction(DISPUTE, value.client, value.tx, 0))
         [] tag = RESOLVE    -> Ok(Transaction(RESOLVE, value.client, value.tx, 0))
         [] tag = CHARGEBACK -> Ok(Transaction(CHARGEBACK, value.client, value.tx, 0))
         [] OTHER            -> Err("unknown record_type")

\* impl TryFrom<InputCsvRecord> for Transaction
TryFrom(value) ==
    LET v == verify_amount(value.amount) IN
    CASE value.record_type = DEPOSIT ->
           IF v.ok THEN Ok(Transaction(DEPOSIT, value.client, value.tx, v.amount))
           ELSE Err(v.error)
      [] value.record_type = WITHDRAWAL ->
           IF v.ok THEN Ok(Transaction(WITHDRAWAL, value.client, value.tx, v.amount))
           ELSE Err(v.error)
      [] value.record_type = DISPUTE    -> Ok(Transaction(DISPUTE, value.client, value.tx, 0))
      [] value.record_type = RESOLVE    -> Ok(Transaction(RESOLVE, value.client, value.tx, 0))
      [] value.record_type = CHARGEBACK -> Ok(Transaction(CHARGEBACK, value.client, value.tx, 0))
      [] OTHER                          -> Err("unknown record_type")

\* ------------------------------------------------------- the csv pipeline

\* a row of the csv input: one that deserializes into an InputCsvRecord, or a
\* malformed one
Row(value) == [malformed |-> FALSE, value |-> value]

MalformedRow == [malformed |-> TRUE, value |-> InputCsvRecord("", 0, 0, None)]

\* into_deserialize and the two filter_map stages: what the row contributes
\* to iter_transactions
FilterMap(row) ==
    IF row.malformed THEN Err("Deserialize Error") ELSE TryFrom(row.value)

\* a pipeline that feeds a deposit or withdrawal of 0 when the amount is
\* rejected
FeedZeroOnError(cl, ds, row) ==
    LET v == FilterMap(row) IN
    IF v.ok THEN LoopBody(cl, ds, v.transaction)
    ELSE IF ~row.malformed /\ row.value.record_type \in {DEPOSIT, WITHDRAWAL}
    THEN LoopBody(cl, ds, Transaction(row.value.record_type, row.value.client,
                                      row.value.tx, 0))
    ELSE Result(cl, ds, "skipped")

\* process_transactions pulling one row through iter_transactions
Feed(cl, ds, row) ==
    LET v == FilterMap(row) IN
    IF v.ok THEN LoopBody(cl, ds, v.transaction) ELSE Result(cl, ds, "skipped")

\* an output row whose total is the available balance alone
OutputCsvRecordTotalAvailable(id, info) ==
    [client |-> id, available |-> info.available, held |-> info.held,
     total |-> info.available, locked |-> info.locked]

\* struct OutputCsvRecord, as the closure of clients.into_iter().map builds it
OutputCsvRecord(id, info) ==
    [client |-> id, available |-> info.available, held |-> info.held,
     total |-> info.available + info.held, locked |-> info.locked]

\* the orders in which HashMap::into_iter may yield the keys
IterationOrders(keys) ==
    {o \in [1..Cardinality(keys) -> keys] : \A i, j \in DOMAIN o : i # j => o[i] # o[j]}

\* type tags a csv row may carry: the five known ones and some others
RecordTypes == {DEPOSIT, WITHDRAWAL, DISPUTE, RESOLVE, CHARGEBACK,
                "Deposit", "CHARGEBACK", "transfer"}

\* raw amounts given to the validator on its own: absent, negative, zero and
\* positive ones on both sides of every rounding midpoint
ValidatorAmounts ==
    {None} \cup {Some(a) : a \in (0 - Pow10(RawDecimals - DECIMAL_PORTION_LEN))
                                 .. (MaxAmount * Pow10(RawDecimals - DECIMAL_PORTION_LEN)
                                       + Pow10(RawDecimals - DECIMAL_PORTION_LEN) \div 2)}

ValidatorRecords ==
    {InputCsvRecord(ty, c, t, a) :
        ty \in RecordTypes, c \in ClientIds, t \in TxIds, a \in ValidatorAmounts}

\* raw amounts in the rows of a stream: absent, zero, and the amounts of the
\* engine
StreamAmounts ==
    {None, Some(0)}
        \cup {Some(a * Pow10(RawDecimals - DECIMAL_PORTION_LEN)) : a \in 1..MaxAmount}

CsvRows ==
    {MalformedRow} \cup
    {Row(InputCsvRecord(ty, c, t, a)) :
        ty \in RecordTypes, c \in ClientIds, t \in TxIds, a \in StreamAmounts}

NoRecord == [row |-> MalformedRow, validated |-> FALSE, result |-> Err("none")]

\* ------------------------------------------------- bookkeeping for claims
\* hist records what the processed prefix of the input was:
\*   seen        clients that appeared as the client field of a transaction
\*   onlyDeposits[c]  every transaction of c so far was a Deposit
\*   deposited[c]     sum of the amounts of c's Deposit transactions
\*   chargedBack      tx ids on which a Chargeback was applied
\*   finalized        as chargedBack, minus ids re-created by a later Deposit
\*   resolved         tx ids whose present record went through Dispute, Resolve
\*   applied          clients with at least one transaction that was not ignored
\*   dispute_base[t]  the account of the client whose Dispute on t was applied,
\*                    as it was before that Dispute; forgotten once that
\*                    account changes again or a Resolve or Chargeback on t
\*                    is applied
\*   last_resolve     tx and client of the Resolve applied in the latest step
NoBase == [set |-> FALSE, client |-> 0, available |-> 0, held |-> 0]

NoResolve == [tx |-> 0, client |-> 0]

HistInit ==
    [seen         |-> {},
     onlyDeposits |-> [c \in ClientIds |-> TRUE],
     deposited    |-> [c \in ClientIds |-> 0],
     chargedBack  |-> {},
     finalized    |-> {},
     resolved     |-> {},
     applied      |-> {},
     dispute_base |-> [t \in TxIds |-> NoBase],
     last_resolve |-> NoResolve]

HistNext(h, t, outcome, before, after) ==
    [seen         |-> h.seen \cup {t.client},
     onlyDeposits |-> [h.onlyDeposits EXCEPT ![t.client] = @ /\ t.kind = DEPOSIT],
     deposited    |-> [h.deposited EXCEPT ![t.client] =
                          IF t.kind = DEPOSIT THEN @ + t.amount ELSE @],
     chargedBack  |-> IF t.kind = CHARGEBACK /\ outcome = "applied"
                      THEN h.chargedBack \cup {t.tx} ELSE h.chargedBack,
     finalized    |-> IF t.kind = CHARGEBACK /\ outcome = "applied"
                      THEN h.finalized \cup {t.tx}
                      ELSE IF t.kind = DEPOSIT /\ outcome = "applied"
                      THEN h.finalized \ {t.tx} ELSE h.finalized,
     resolved     |-> IF t.kind = RESOLVE /\ outcome = "applied"
                      THEN h.resolved \cup {t.tx}
                      ELSE IF t.kind \in {DEPOSIT, CHARGEBACK} /\ outcome = "applied"
                      THEN h.resolved \ {t.tx} ELSE h.resolved,
     applied      |-> IF outcome = "applied" THEN h.applied \cup {t.client} ELSE h.applied,
     dispute_base |-> [u \in TxIds |->
                          IF t.kind = DISPUTE /\ outcome = "applied" /\ u = t.tx
                          THEN [set |-> TRUE, client |-> t.client,
                                available |-> before.available, held |-> before.held]
                          ELSE IF h.dispute_base[u].client = t.client /\ after # before
                          THEN NoBase
                          ELSE IF u = t.tx /\ outcome = "applied"
                                  /\ t.kind \in {RESOLVE, CHARGEBACK}
                          THEN NoBase
                          ELSE h.dispute_base[u]],
     last_resolve |-> IF t.kind = RESOLVE /\ outcome = "applied"
                      THEN [tx |-> t.tx, client |-> t.client] ELSE NoResolve]

\* audit records more of what the processed prefix of the input was:
\*   deposit_ids      tx ids carried by a Deposit of the input
\*   withdrawal_ids   tx ids carried by a Withdrawal of the input
\*   repeated         some tx id was carried by more than one Deposit
\*   applied_ids      tx ids carried by a Deposit that was applied
\*   applied_repeated some tx id was carried by more than one applied Deposit
\*   net[c]           sum of the amounts of c's applied Deposits, minus the
\*                    amounts of its applied Withdrawals, minus the amounts
\*                    of the records its applied Chargebacks removed
\*   chargebacks[c]   number of c's Chargebacks that were applied
\*   before           audit as it was before the latest step
AuditFields ==
    [deposit_ids      |-> {},
     withdrawal_ids   |-> {},
     repeated         |-> FALSE,
     applied_ids      |-> {},
     applied_repeated |-> FALSE,
     net              |-> [c \in ClientIds |-> 0],
     chargebacks      |-> [c \in ClientIds |-> 0]]

AuditInit == [now |-> AuditFields, before |-> AuditFields]

\* ds is the deposit table before the step
AuditNext(a, t, outcome, ds) ==
    [before |-> a.now,
     now |->
       [deposit_ids      |-> IF t.kind = DEPOSIT THEN a.now.deposit_ids \cup {t.tx}
                             ELSE a.now.deposit_ids,
        withdrawal_ids   |-> IF t.kind = WITHDRAWAL
                             THEN a.now.withdrawal_ids \cup {t.tx}
                             ELSE a.now.withdrawal_ids,
        repeated         |-> a.now.repeated
                               \/ (t.kind = DEPOSIT /\ t.tx \in a.now.deposit_ids),
        applied_ids      |-> IF t.kind = DEPOSIT /\ outcome = "applied"
                             THEN a.now.applied_ids \cup {t.tx} ELSE a.now.applied_ids,
        applied_repeated |-> a.now.applied_repeated
                               \/ (t.kind = DEPOSIT /\ outcome = "applied"
                                      /\ t.tx \in a.now.applied_ids),
        net              |-> [a.now.net EXCEPT ![t.client] =
                                IF outcome # "applied" THEN @
                                ELSE CASE t.kind = DEPOSIT    -> @ + t.amount
                                       [] t.kind = WITHDRAWAL -> @ - t.amount
                                       [] t.kind = CHARGEBACK -> @ - ds[t.tx].amount
                                       [] OTHER               -> @],
        chargebacks      |-> [a.now.chargebacks EXCEPT ![t.client] =
                                IF t.kind = CHARGEBACK /\ outcome = "applied"
                                THEN @ + 1 ELSE @]]]

\* solo[c] is the engine state that the transactions of client c processed
\* so far give when they are processed on their own, in their order
SoloInit == [c \in ClientIds |-> [clients |-> Empty, deposits |-> Empty]]

SoloNext(so, t) ==
    LET r == LoopBody(so[t.client].clients, so[t.client].deposits, t) IN
    [so EXCEPT ![t.client] = [clients |-> r.clients, deposits |-> r.deposits]]

\* valid_only is the engine state that the rows read so far give when every
\* row that is malformed or fails validation is taken out of the stream;
\* it also counts the rows taken out (skipped), the rows kept (valid), and
\* the rows kept before the first one taken out (valid_at_first_skip)
ValidOnlyInit ==
    [clients |-> Empty, deposits |-> Empty, skipped |-> 0, valid |-> 0,
     valid_at_first_skip |-> 0]

\* a row that deserializes, carries one of the five type tags and, for a
\* deposit or withdrawal, a positive amount
IsValidRow(row) ==
    /\ ~row.malformed
    /\ row.value.record_type \in {DEPOSIT, WITHDRAWAL, DISPUTE, RESOLVE, CHARGEBACK}
    /\ row.value.record_type \in {DEPOSIT, WITHDRAWAL}
          => row.value.amount.some /\ row.value.amount.value > 0

ValidOnlyNext(vo, row) ==
    IF IsValidRow(row)
    THEN LET r == LoopBody(vo.clients, vo.deposits, TryFrom(row.value).transaction) IN
         [vo EXCEPT !.clients = r.clients, !.deposits = r.deposits, !.valid = @ + 1]
    ELSE [vo EXCEPT !.skipped = @ + 1,
                    !.valid_at_first_skip = IF vo.skipped = 0 THEN vo.valid ELSE @]

\* ------------------------------------------------------------ transitions
Init ==
    /\ clients = Empty
    /\ deposit_transactions_seen = Empty
    /\ last = NoTransaction
    /\ prev = [clients |-> Empty, deposits |-> Empty, hist |-> HistInit]
    /\ hist = HistInit
    /\ processed = 0
    /\ record = NoRecord
    /\ valid_only = ValidOnlyInit
    /\ csv_output = << >>
    /\ pc = "reading"
    /\ audit = AuditInit
    /\ solo = SoloInit

\* the loop takes the next transaction t from the iterator and processes it
Process(t) ==
    /\ processed < MaxTxns
    /\ LET r == LoopBody(clients, deposit_transactions_seen, t) IN
         /\ clients' = r.clients
         /\ deposit_transactions_seen' = r.deposits
         /\ last' = [kind |-> t.kind, client |-> t.client, tx |-> t.tx,
                     amount |-> t.amount, outcome |-> r.outcome]
         /\ hist' = HistNext(hist, t, r.outcome,
                              Entry(clients, t.client)[t.client], r.clients[t.client])
    /\ prev' = [clients |-> clients, deposits |-> deposit_transactions_seen, hist |-> hist]
    /\ processed' = processed + 1
    /\ UNCHANGED <<stream_vars, audit_vars>>

ProcessDeposit ==
    \E c \in ClientIds, t \in TxIds, a \in Amounts : Process(Transaction(DEPOSIT, c, t, a))

ProcessWithdrawal ==
    \E c \in ClientIds, t \in TxIds, a \in Amounts : Process(Transaction(WITHDRAWAL, c, t, a))

ProcessDispute ==
    \E c \in ClientIds, t \in TxIds : Process(Transaction(DISPUTE, c, t, 0))

ProcessResolve ==
    \E c \in ClientIds, t \in TxIds : Process(Transaction(RESOLVE, c, t, 0))

ProcessChargeback ==
    \E c \in ClientIds, t \in TxIds : Process(Transaction(CHARGEBACK, c, t, 0))

Next ==
    \/ ProcessDeposit
    \/ ProcessWithdrawal
    \/ ProcessDispute
    \/ ProcessResolve
    \/ ProcessChargeback

Spec == Init /\ [][Next]_vars

\* process_transactions_and_return_csv_result reads one more row of the input
ReadRecord ==
    /\ pc = "reading"
    /\ processed < MaxRecords
    /\ \E row \in CsvRows :
         LET r == Feed(clients, deposit_transactions_seen, row) IN
           /\ clients' = r.clients
           /\ deposit_transactions_seen' = r.deposits
           /\ record' = [row |-> row, validated |-> TRUE, result |-> FilterMap(row)]
           /\ valid_only' = ValidOnlyNext(valid_only, row)
    /\ processed' = processed + 1
    /\ UNCHANGED <<last, prev, hist, csv_output, pc, audit_vars>>

\* the input is exhausted: one OutputCsvRecord per entry of clients is
\* serialized, in the order the map yields them
WriteOutput ==
    /\ pc = "reading"
    /\ \E o \in IterationOrders(DOMAIN clients) :
         csv_output' = [i \in DOMAIN o |-> OutputCsvRecord(o[i], clients[o[i]])]
    /\ pc' = "done"
    /\ UNCHANGED <<engine_vars, record, valid_only, audit_vars>>

NextStream ==
    \/ ReadRecord
    \/ WriteOutput

SpecStream == Init /\ [][NextStream]_vars

\* the validator applied to one record on its own
InitValidator ==
    /\ clients = Empty
    /\ deposit_transactions_seen = Empty
    /\ last = NoTransaction
    /\ prev = [clients |-> Empty, deposits |-> Empty, hist |-> HistInit]
    /\ hist = HistInit
    /\ processed = 0
    /\ record \in {[row |-> Row(v), validated |-> FALSE, result |-> Err("none")] :
                        v \in ValidatorRecords}
    /\ valid_only = ValidOnlyInit
    /\ csv_output = << >>
    /\ pc = "reading"
    /\ audit = AuditInit
    /\ solo = SoloInit

Validate ==
    /\ ~record.validated
    /\ record' = [record EXCEPT !.validated = TRUE, !.result = TryFrom(record.row.value)]
    /\ UNCHANGED <<engine_vars, valid_only, csv_output, pc, audit_vars>>

NextValidator == Validate

SpecValidator == InitValidator /\ [][NextValidator]_vars

\* the loop again, with the audit of the input and the per-client runs kept
\* in place of hist
Audited(t) ==
    /\ processed < MaxTxns
    /\ LET r == LoopBody(clients, deposit_transactions_seen, t) IN
         /\ clients' = r.clients
         /\ deposit_transactions_seen' = r.deposits
         /\ last' = [kind |-> t.kind, client |-> t.client, tx |-> t.tx,
                     amount |-> t.amount, outcome |-> r.outcome]
         /\ audit' = AuditNext(audit, t, r.outcome, deposit_transactions_seen)
    /\ solo' = SoloNext(solo, t)
    /\ prev' = [clients |-> clients, deposits |-> deposit_transactions_seen, hist |-> hist]
    /\ processed' = processed + 1
    /\ UNCHANGED <<hist, stream_vars>>

AuditedDeposit ==
    \E c \in ClientIds, t \in TxIds, a \in Amounts : Audited(Transaction(DEPOSIT, c, t, a))

AuditedWithdrawal ==
    \E c \in ClientIds, t \in TxIds, a \in Amounts : Audited(Transaction(WITHDRAWAL, c, t, a))

AuditedDispute ==
    \E c \in ClientIds, t \in TxIds : Audited(Transaction(DISPUTE, c, t, 0))

AuditedResolve ==
    \E c \in ClientIds, t \in TxIds : Audited(Transaction(RESOLVE, c, t, 0))

AuditedChargeback ==
    \E c \in ClientIds, t \in TxIds : Audited(Transaction(CHARGEBACK, c, t, 0))

NextAudited ==
    \/ AuditedDeposit
    \/ AuditedWithdrawal
    \/ AuditedDispute
    \/ AuditedResolve
    \/ AuditedChargeback

SpecAudited == Init /\ [][NextAudited]_vars

TypeOK ==
    /\ DOMAIN clients \subseteq ClientIds
    /\ DOMAIN deposit_transactions_seen \subseteq TxIds
    /\ \A c \in DOMAIN clients :
         clients[c].available \in Int /\ clients[c].held \in Int /\ clients[c].locked \in BOOLEAN
    /\ \A t \in DOMAIN deposit_transactions_seen :
         /\ deposit_transactions_seen[t].client \in ClientIds
         /\ deposit_transactions_seen[t].amount \in Amounts
         /\ deposit_transactions_seen[t].under_dispute \in BOOLEAN
    /\ processed \in 0..MaxTxns


\* ---------------------------------------------------------------- claims
\* The account of client c as the final mapping would report it; a client
\* without an entry has had no transaction and no funds.
Acct(cl, c) == IF c \in DOMAIN cl THEN cl[c] ELSE ClientInfoDefault

AccountsUnchanged == \A c \in ClientIds : Acct(clients, c) = Acct(prev.clients, c)

DepositsUnchanged == deposit_transactions_seen = prev.deposits

Stepped == last.kind # "none"

PrevHasRecord == last.tx \in DOMAIN prev.deposits

\* C1: every client account has available >= 0 and held >= 0 in every
\* reachable state, whatever clients and tx ids (reused ones included) the
\* input carries.
C1_NonNegativeBalances ==
    \A c \in DOMAIN clients : clients[c].available >= 0 /\ clients[c].held >= 0

\* a Deposit has just re-used the tx id of a record that was under dispute,
\* so the held funds of that dispute lost their record
C1_Witness ==
    /\ last.kind = DEPOSIT /\ last.outcome = "applied"
    /\ PrevHasRecord
    /\ prev.deposits[last.tx].under_dispute
    /\ prev.deposits[last.tx].amount > 0
    /\ \E c \in DOMAIN clients : clients[c].held > 0

\* C2: a transaction of any kind whose client is already locked leaves that
\* client's available, held and locked, and the deposit table, unchanged.
C2_LockedClientIsFrozen ==
    (Stepped /\ Acct(prev.clients, last.client).locked)
        => /\ last.client \in DOMAIN clients
           /\ clients[last.client] = prev.clients[last.client]
           /\ DepositsUnchanged

\* a locked client has just sent Resolve or Chargeback for a deposit of its
\* own that is still under dispute
C2_Witness ==
    /\ last.kind \in {RESOLVE, CHARGEBACK}
    /\ Acct(prev.clients, last.client).locked
    /\ PrevHasRecord
    /\ prev.deposits[last.tx].under_dispute
    /\ prev.deposits[last.tx].client = last.client
    /\ prev.deposits[last.tx].amount > 0

\* C3: locked turns from false to true only in a step that is a successful
\* Chargeback of that same client (record present, under dispute, owned by
\* it), and a locked account is never unlocked by any transaction.
C3_LockOnlyBySuccessfulChargeback ==
    \A c \in ClientIds :
        /\ Acct(prev.clients, c).locked => Acct(clients, c).locked
        /\ (~Acct(prev.clients, c).locked /\ Acct(clients, c).locked)
              => /\ last.kind = CHARGEBACK
                 /\ last.client = c
                 /\ PrevHasRecord
                 /\ prev.deposits[last.tx].under_dispute
                 /\ prev.deposits[last.tx].client = c

\* one client has just become locked while another one was locked before and
\* still is
C3_Witness ==
    \E c, d \in DOMAIN clients :
        /\ c # d
        /\ ~Acct(prev.clients, c).locked /\ clients[c].locked
        /\ Acct(prev.clients, d).locked /\ clients[d].locked

\* C4 as stated: a Withdrawal with available < amount leaves the set of
\* client accounts and the deposit table identical, also for a client that
\* had not been seen before.
C4_Original ==
    (last.kind = WITHDRAWAL /\ Acct(prev.clients, last.client).available < last.amount)
        => clients = prev.clients /\ DepositsUnchanged

\* C4 amended: a Withdrawal with available < amount leaves the deposit table
\* and every account unchanged, except that a client seen for the first time
\* gets an account with available 0, held 0, locked false.
C4_InsufficientWithdrawalIsNoOp ==
    (last.kind = WITHDRAWAL /\ Acct(prev.clients, last.client).available < last.amount)
        => /\ DOMAIN clients = DOMAIN prev.clients \cup {last.client}
           /\ \A c \in DOMAIN clients : clients[c] = Acct(prev.clients, c)
           /\ DepositsUnchanged

\* an unlocked client that holds a deposit record has just asked for more
\* than it has available
C4_Witness ==
    /\ last.kind = WITHDRAWAL
    /\ last.client \in DOMAIN prev.clients
    /\ ~prev.clients[last.client].locked
    /\ prev.clients[last.client].available < last.amount
    /\ \E t \in DOMAIN prev.deposits : prev.deposits[t].client = last.client

\* C5: a Dispute whose tx has no record, or a record of another client, or a
\* record already under dispute changes no account and no deposit record.
C5_RejectedDisputeIsNoOp ==
    (/\ last.kind = DISPUTE
     /\ \/ ~PrevHasRecord
        \/ prev.deposits[last.tx].client # last.client
        \/ prev.deposits[last.tx].under_dispute)
        => AccountsUnchanged /\ DepositsUnchanged

\* an unlocked client with enough funds of its own has just disputed the
\* undisputed deposit of another client
C5_Witness ==
    /\ last.kind = DISPUTE
    /\ PrevHasRecord
    /\ prev.deposits[last.tx].client # last.client
    /\ ~prev.deposits[last.tx].under_dispute
    /\ prev.deposits[last.tx].amount > 0
    /\ ~Acct(prev.clients, last.client).locked
    /\ Acct(prev.clients, last.client).available >= prev.deposits[last.tx].amount

\* C6: a Resolve or Chargeback whose tx has no record, or a record not under
\* dispute, or a record of another client changes no account and no deposit
\* record; a Chargeback on a resolved deposit leaves locked = false.
C6_RejectedResolveChargebackIsNoOp ==
    (/\ last.kind \in {RESOLVE, CHARGEBACK}
     /\ \/ ~PrevHasRecord
        \/ ~prev.deposits[last.tx].under_dispute
        \/ prev.deposits[last.tx].client # last.client)
        => /\ AccountsUnchanged
           /\ DepositsUnchanged
           /\ (last.kind = CHARGEBACK /\ ~Acct(prev.clients, last.client).locked)
                 => ~Acct(clients, last.client).locked

\* the owner has just sent a Chargeback for its deposit that was disputed and
\* then resolved
C6_Witness ==
    /\ last.kind = CHARGEBACK
    /\ PrevHasRecord
    /\ last.tx \in prev.hist.resolved
    /\ ~prev.deposits[last.tx].under_dispute
    /\ prev.deposits[last.tx].client = last.client
    /\ prev.deposits[last.tx].amount > 0
    /\ ~Acct(clients, last.client).locked

\* the conditions under which a Chargeback is successful
ChargebackPre ==
    /\ last.kind = CHARGEBACK
    /\ ~Acct(prev.clients, last.client).locked
    /\ PrevHasRecord
    /\ prev.deposits[last.tx].under_dispute
    /\ prev.deposits[last.tx].client = last.client

\* C7: a successful Chargeback takes exactly the record's amount from the
\* client's held, leaves available, sets locked, removes the record of that
\* tx, and changes no other account and no other record.
C7_SuccessfulChargeback ==
    ChargebackPre
        => /\ DOMAIN clients = DOMAIN prev.clients
           /\ clients[last.client].held =
                 prev.clients[last.client].held - prev.deposits[last.tx].amount
           /\ clients[last.client].available = prev.clients[last.client].available
           /\ clients[last.client].locked = TRUE
           /\ \A c \in DOMAIN clients \ {last.client} : clients[c] = prev.clients[c]
           /\ DOMAIN deposit_transactions_seen = DOMAIN prev.deposits \ {last.tx}
           /\ \A t \in DOMAIN deposit_transactions_seen :
                 deposit_transactions_seen[t] = prev.deposits[t]

\* a Chargeback has just succeeded while another account and another deposit
\* record exist
C7_Witness ==
    /\ ChargebackPre
    /\ prev.deposits[last.tx].amount > 0
    /\ DOMAIN prev.clients # {last.client}
    /\ DOMAIN prev.deposits # {last.tx}

\* C8 as stated: once a Chargeback on tx id T has succeeded, no later
\* Dispute, Resolve or Chargeback naming T changes any balance or flag.
C8_Original ==
    (last.kind \in {DISPUTE, RESOLVE, CHARGEBACK} /\ last.tx \in prev.hist.chargedBack)
        => AccountsUnchanged /\ DepositsUnchanged

\* C8 amended: once a Chargeback on tx id T has succeeded, no Dispute,
\* Resolve or Chargeback naming T changes any balance or flag until a later
\* Deposit with tx id T is applied.
C8_ChargedBackDepositIsFinal ==
    (last.kind \in {DISPUTE, RESOLVE, CHARGEBACK} /\ last.tx \in prev.hist.finalized)
        => AccountsUnchanged /\ DepositsUnchanged

\* an unlocked client has just sent a Dispute for a charged-back tx id
C8_Witness ==
    /\ last.kind = DISPUTE
    /\ last.tx \in prev.hist.finalized
    /\ ~Acct(prev.clients, last.client).locked
    /\ Acct(prev.clients, last.client).available > 0

\* C9: a client all of whose transactions were Deposits has available equal
\* to the sum of the deposited amounts and held equal to 0.
C9_OnlyDepositsSum ==
    \A c \in hist.seen :
        hist.onlyDeposits[c]
            => /\ c \in DOMAIN clients
               /\ clients[c].available = hist.deposited[c]
               /\ clients[c].held = 0

\* a client has made only deposits, more than one of them with a positive
\* amount, while another client holds disputed funds
C9_Witness ==
    \E c, d \in DOMAIN clients :
        /\ c # d
        /\ hist.onlyDeposits[c]
        /\ hist.deposited[c] >= 2
        /\ clients[d].held > 0

\* C10: the clients with an account are exactly those that appeared as the
\* client field of a transaction, and a client all of whose transactions
\* were ignored has available 0, held 0, locked false.
C10_OneAccountPerClientSeen ==
    /\ DOMAIN clients = hist.seen
    /\ \A c \in hist.seen \ hist.applied : clients[c] = ClientInfoDefault

\* a client whose transactions were all ignored has just disputed the deposit
\* of another client
C10_Witness ==
    /\ last.kind = DISPUTE
    /\ last.client \notin hist.applied
    /\ last.client \notin DOMAIN prev.clients
    /\ PrevHasRecord
    /\ prev.deposits[last.tx].client # last.client
    /\ prev.deposits[last.tx].amount > 0


\* the conditions under which a Dispute is successful
DisputePre ==
    /\ last.kind = DISPUTE
    /\ ~Acct(prev.clients, last.client).locked
    /\ PrevHasRecord
    /\ ~prev.deposits[last.tx].under_dispute
    /\ prev.deposits[last.tx].client = last.client
    /\ Acct(prev.clients, last.client).available >= prev.deposits[last.tx].amount

\* C16: a Dispute by the owning, unlocked client on a record that is not
\* under dispute is ignored when the client's available is below the
\* deposit's amount: available, held and the record's flag are unchanged.
C16_UnfundedDisputeIsIgnored ==
    (/\ last.kind = DISPUTE
     /\ ~Acct(prev.clients, last.client).locked
     /\ PrevHasRecord
     /\ ~prev.deposits[last.tx].under_dispute
     /\ prev.deposits[last.tx].client = last.client
     /\ Acct(prev.clients, last.client).available < prev.deposits[last.tx].amount)
        => /\ AccountsUnchanged
           /\ DepositsUnchanged
           /\ ~deposit_transactions_seen[last.tx].under_dispute

\* the owner has just disputed its own deposit after the funds were gone
C16_Witness ==
    /\ last.kind = DISPUTE
    /\ last.client \in DOMAIN prev.clients
    /\ ~prev.clients[last.client].locked
    /\ PrevHasRecord
    /\ ~prev.deposits[last.tx].under_dispute
    /\ prev.deposits[last.tx].client = last.client
    /\ prev.clients[last.client].available < prev.deposits[last.tx].amount
    /\ last.outcome = "not_enough_funds"

\* C17: a successful Dispute moves exactly the record's amount from the
\* client's available to its held, sets the record's under_dispute, and
\* leaves available + held, locked, every other account and every other
\* deposit record unchanged.
C17_SuccessfulDispute ==
    DisputePre
        => /\ DOMAIN clients = DOMAIN prev.clients
           /\ clients[last.client].available =
                 prev.clients[last.client].available - prev.deposits[last.tx].amount
           /\ clients[last.client].held =
                 prev.clients[last.client].held + prev.deposits[last.tx].amount
           /\ clients[last.client].available + clients[last.client].held =
                 prev.clients[last.client].available + prev.clients[last.client].held
           /\ clients[last.client].locked = prev.clients[last.client].locked
           /\ \A c \in DOMAIN clients \ {last.client} : clients[c] = prev.clients[c]
           /\ DOMAIN deposit_transactions_seen = DOMAIN prev.deposits
           /\ deposit_transactions_seen[last.tx] =
                 [prev.deposits[last.tx] EXCEPT !.under_dispute = TRUE]
           /\ \A t \in DOMAIN deposit_transactions_seen \ {last.tx} :
                 deposit_transactions_seen[t] = prev.deposits[t]

\* a Dispute of a positive amount has just succeeded while another account
\* and another deposit record exist
C17_Witness ==
    /\ DisputePre
    /\ prev.deposits[last.tx].amount > 0
    /\ DOMAIN prev.clients # {last.client}
    /\ DOMAIN prev.deposits # {last.tx}

\* the conditions under which a Resolve is successful
ResolvePre ==
    /\ last.kind = RESOLVE
    /\ ~Acct(prev.clients, last.client).locked
    /\ PrevHasRecord
    /\ prev.deposits[last.tx].under_dispute
    /\ prev.deposits[last.tx].client = last.client

UnderDispute(ds, t) == t \in DOMAIN ds /\ ds[t].under_dispute

\* a step leaves record t alone, or makes exactly the move of the per-deposit
\* state machine that a successful Dispute, Resolve or Chargeback on t makes
RecordMoveIsLegal(t) ==
    /\ (UnderDispute(prev.deposits, t) /\ ~UnderDispute(deposit_transactions_seen, t))
          => /\ last.tx = t
             /\ \/ ResolvePre /\ t \in DOMAIN deposit_transactions_seen
                \/ ChargebackPre /\ t \notin DOMAIN deposit_transactions_seen
    /\ (~UnderDispute(prev.deposits, t) /\ UnderDispute(deposit_transactions_seen, t))
          => last.tx = t /\ DisputePre
    /\ (t \in DOMAIN prev.deposits /\ t \notin DOMAIN deposit_transactions_seen)
          => last.tx = t /\ ChargebackPre

\* C19 as stated: a record leaves UnderDispute only through a successful
\* Resolve or Chargeback, enters it only through a successful Dispute, and
\* no other transaction changes a record's flag or removes a record.
C19_Original ==
    \A t \in TxIds : RecordMoveIsLegal(t)

\* C19 amended: as stated, except that an applied Deposit that re-uses the
\* tx id of a record replaces that record by a new one that is not under
\* dispute.
C19_DepositStateMachine ==
    \A t \in TxIds :
        \/ RecordMoveIsLegal(t)
        \/ /\ last.kind = DEPOSIT /\ last.tx = t
           /\ ~Acct(prev.clients, last.client).locked
           /\ deposit_transactions_seen[t] =
                 [client |-> last.client, amount |-> last.amount, under_dispute |-> FALSE]

\* a Resolve has just returned a record from UnderDispute to Normal while
\* another record stays under dispute
C19_Witness ==
    /\ ResolvePre
    /\ ~UnderDispute(deposit_transactions_seen, last.tx)
    /\ \E t \in TxIds \ {last.tx} :
          UnderDispute(prev.deposits, t) /\ UnderDispute(deposit_transactions_seen, t)

\* C20: a Deposit(amount) with tx T by an unlocked client c leaves T mapped
\* to (c, amount, false) whatever T had before, increases c's available by
\* exactly amount, and leaves c's held and locked unchanged.
C20_DepositAlwaysApplies ==
    (last.kind = DEPOSIT /\ ~Acct(prev.clients, last.client).locked)
        => /\ last.tx \in DOMAIN deposit_transactions_seen
           /\ deposit_transactions_seen[last.tx] =
                 [client |-> last.client, amount |-> last.amount, under_dispute |-> FALSE]
           /\ last.client \in DOMAIN clients
           /\ clients[last.client].available =
                 Acct(prev.clients, last.client).available + last.amount
           /\ clients[last.client].held = Acct(prev.clients, last.client).held
           /\ clients[last.client].locked = Acct(prev.clients, last.client).locked

\* a Deposit has just re-used the tx id of another client's record that was
\* under dispute
C20_Witness ==
    /\ last.kind = DEPOSIT
    /\ last.amount > 0
    /\ ~Acct(prev.clients, last.client).locked
    /\ PrevHasRecord
    /\ prev.deposits[last.tx].client # last.client
    /\ prev.deposits[last.tx].under_dispute


\* C18: a successful Resolve on T by the client whose Dispute on T was
\* applied, with no change to that client's account in between, restores the
\* client's available and held and the record's flag to what they were
\* before the Dispute, and a Dispute on T that follows succeeds again.
C18_ResolveUndoesDispute ==
    /\ (/\ ResolvePre
        /\ prev.hist.dispute_base[last.tx].set
        /\ prev.hist.dispute_base[last.tx].client = last.client)
          => /\ clients[last.client].available = prev.hist.dispute_base[last.tx].available
             /\ clients[last.client].held = prev.hist.dispute_base[last.tx].held
             /\ last.tx \in DOMAIN deposit_transactions_seen
             /\ ~deposit_transactions_seen[last.tx].under_dispute
             /\ deposit_transactions_seen[last.tx].client = last.client
             /\ clients[last.client].available >= deposit_transactions_seen[last.tx].amount
             /\ ~clients[last.client].locked
    /\ (/\ last.kind = DISPUTE
        /\ prev.hist.last_resolve = [tx |-> last.tx, client |-> last.client])
          => /\ deposit_transactions_seen[last.tx].under_dispute
             /\ clients[last.client].held =
                   prev.clients[last.client].held + prev.deposits[last.tx].amount
             /\ clients[last.client].available =
                   prev.clients[last.client].available - prev.deposits[last.tx].amount

\* a deposit of a positive amount was disputed, resolved by the same client
\* with the account untouched in between, and has just been disputed again
C18_Witness ==
    /\ last.kind = DISPUTE
    /\ prev.hist.last_resolve = [tx |-> last.tx, client |-> last.client]
    /\ prev.deposits[last.tx].amount > 0
    /\ hist.dispute_base[last.tx].set
    /\ hist.dispute_base[last.tx].available = prev.clients[last.client].available
    /\ hist.dispute_base[last.tx].held = prev.clients[last.client].held
    /\ clients[last.client].held > 0


\* C11: once the output is written there is exactly one row per account of
\* the final mapping, and every row's total equals that client's
\* available + held.
C11_OutputRows ==
    pc = "done"
        => /\ Len(csv_output) = Cardinality(DOMAIN clients)
           /\ \A c \in DOMAIN clients :
                 Cardinality({i \in DOMAIN csv_output : csv_output[i].client = c}) = 1
           /\ \A i \in DOMAIN csv_output :
                 /\ csv_output[i].client \in DOMAIN clients
                 /\ csv_output[i].total =
                       clients[csv_output[i].client].available
                         + clients[csv_output[i].client].held
                 /\ csv_output[i].total = csv_output[i].available + csv_output[i].held

\* the output has been written for two accounts, one with held funds and one
\* with available funds
C11_Witness ==
    /\ pc = "done"
    /\ Len(csv_output) >= 2
    /\ \E i, j \in DOMAIN csv_output :
          i # j /\ csv_output[i].held > 0 /\ csv_output[j].available > 0

\* C12: the mapping reached from an input stream is the mapping reached from
\* the same stream without its malformed and invalid records: such a record
\* is skipped and the valid records after it are applied in their order.
C12_InvalidRecordsSkipped ==
    /\ clients = valid_only.clients
    /\ deposit_transactions_seen = valid_only.deposits

\* a valid Deposit, then a skipped row, then a valid Dispute that has just put
\* the deposit under dispute
C12_Witness ==
    /\ valid_only.skipped >= 1
    /\ valid_only.valid_at_first_skip >= 1
    /\ valid_only.valid > valid_only.valid_at_first_skip
    /\ record.validated /\ record.result.ok
    /\ record.result.transaction.kind = DISPUTE
    /\ \E c \in DOMAIN clients : clients[c].held > 0

\* C13: the validator rejects a deposit or withdrawal record whose amount is
\* absent, zero or negative, and produces no Transaction for it.
C13_NonPositiveAmountRejected ==
    (/\ record.validated
     /\ record.row.value.record_type \in {DEPOSIT, WITHDRAWAL}
     /\ \/ ~record.row.value.amount.some
        \/ record.row.value.amount.value <= 0)
        => /\ ~record.result.ok
           /\ record.result.transaction.kind = "none"
           /\ record.result.error \in {"no valid amount found", "amount must be positive"}

\* a deposit record with amount 0 has been validated
C13_Witness ==
    /\ record.validated
    /\ record.row.value.record_type = DEPOSIT
    /\ record.row.value.amount = Some(0)
    /\ ~record.result.ok

\* C14: every Deposit or Withdrawal Transaction the validator produces
\* carries an amount that is strictly positive after the rounding to 4
\* decimal places.
C14_Original ==
    (/\ record.validated
     /\ record.result.ok
     /\ record.result.transaction.kind \in {DEPOSIT, WITHDRAWAL})
        => record.result.transaction.amount > 0

\* C15: the validator accepts a record only if its type tag is exactly one
\* of the five known tags; any other tag, a differently-cased known one
\* included, is a validation failure, and an accepted record gives the
\* Transaction kind of the same name with client and tx copied.
C15_TypeTagExactMatch ==
    record.validated
        => /\ record.result.ok
              => /\ record.row.value.record_type
                      \in {DEPOSIT, WITHDRAWAL, DISPUTE, RESOLVE, CHARGEBACK}
                 /\ record.result.transaction.kind = record.row.value.record_type
                 /\ record.result.transaction.client = record.row.value.client
                 /\ record.result.transaction.tx = record.row.value.tx
           /\ record.row.value.record_type
                \notin {DEPOSIT, WITHDRAWAL, DISPUTE, RESOLVE, CHARGEBACK}
              => /\ ~record.result.ok
                 /\ record.result.transaction.kind = "none"
                 /\ record.result.error = "unknown record_type"

\* a record tagged Deposit, with a good amount, has been validated
C15_Witness ==
    /\ record.validated
    /\ record.row.value.record_type = "Deposit"
    /\ record.row.value.amount.some
    /\ record.row.value.amount.value > 0
    /\ ~record.result.ok

\* C21: a Withdrawal, applied or ignored, changes no client's held and adds,
\* removes or modifies no deposit record; hence a Dispute, Resolve or
\* Chargeback on a tx id that no Deposit has carried (Withdrawals may have)
\* is ignored and changes nothing.
C21_WithdrawalIsNotDisputable ==
    /\ last.kind = WITHDRAWAL
          => /\ \A c \in ClientIds : Acct(clients, c).held = Acct(prev.clients, c).held
             /\ DepositsUnchanged
    /\ (last.kind \in {DISPUTE, RESOLVE, CHARGEBACK}
           /\ last.tx \notin audit.before.deposit_ids)
          => /\ last.outcome # "applied"
             /\ AccountsUnchanged
             /\ DepositsUnchanged

\* a client that is not locked and has available funds has just sent a
\* Dispute, Resolve or Chargeback on a tx id that Withdrawals have carried
\* and no Deposit has
C21_Witness ==
    /\ last.kind \in {DISPUTE, RESOLVE, CHARGEBACK}
    /\ last.tx \in audit.before.withdrawal_ids
    /\ last.tx \notin audit.before.deposit_ids
    /\ ~Acct(prev.clients, last.client).locked
    /\ Acct(prev.clients, last.client).available > 0

\* available + held, which the output reports as total
Total(info) == info.available + info.held

\* C22: funds are conserved per client: in every reachable state, for every
\* client, available + held equals the sum of the amounts of its applied
\* Deposits minus that of its applied Withdrawals minus the amounts its
\* applied Chargebacks removed; a Dispute or Resolve changes no client's
\* available + held.
C22_FundsConserved ==
    /\ \A c \in ClientIds : Total(Acct(clients, c)) = audit.now.net[c]
    /\ last.kind \in {DISPUTE, RESOLVE}
          => \A c \in ClientIds : Total(Acct(clients, c)) = Total(Acct(prev.clients, c))

\* a Chargeback has just removed a positive amount from a client whose
\* Withdrawals carried some tx id and whose remaining funds are positive
C22_Witness ==
    /\ last.kind = CHARGEBACK /\ last.outcome = "applied"
    /\ prev.deposits[last.tx].amount > 0
    /\ audit.now.withdrawal_ids # {}
    /\ audit.now.net[last.client] > 0
    /\ audit.now.net[last.client] < audit.before.net[last.client]

\* the deposit records of ds that client c owns and that are under dispute
DisputedOf(ds, c) == {t \in DOMAIN ds : ds[t].client = c /\ ds[t].under_dispute}

RECURSIVE SumAmounts(_, _)
SumAmounts(ds, S) ==
    IF S = {} THEN 0
    ELSE LET t == CHOOSE u \in S : TRUE IN ds[t].amount + SumAmounts(ds, S \ {t})

\* some Resolve or Chargeback, from some client, would be applied to tx now
Releasable(tx) ==
    \E c \in ClientIds, k \in {RESOLVE, CHARGEBACK} :
        LoopBody(clients, deposit_transactions_seen, Transaction(k, c, tx, 0)).outcome
            = "applied"

HeldCoversDisputed ==
    \A c \in ClientIds :
        Acct(clients, c).held
            >= SumAmounts(deposit_transactions_seen, DisputedOf(deposit_transactions_seen, c))

HeldEqualsDisputed ==
    \A c \in ClientIds :
        Acct(clients, c).held
            = SumAmounts(deposit_transactions_seen, DisputedOf(deposit_transactions_seen, c))

\* C23 as stated: held[c] is at least the sum of the amounts of c's records
\* under dispute, equals it while no tx id was used by more than one applied
\* Deposit, and then every client with held funds has a record under
\* dispute that a Resolve or Chargeback can still release.
C23_Original ==
    /\ HeldCoversDisputed
    /\ ~audit.now.applied_repeated
          => /\ HeldEqualsDisputed
             /\ \A c \in ClientIds :
                   Acct(clients, c).held > 0
                      => \E t \in DisputedOf(deposit_transactions_seen, c) : Releasable(t)

\* C23: held[c] is at least the sum of the amounts of c's records under
\* dispute and equals it while no tx id was used by more than one applied
\* Deposit; then every client with held funds has a record under dispute,
\* and while that client is not locked a Resolve or Chargeback can still
\* release it.
C23_HeldIsBackedByDisputedRecords ==
    /\ HeldCoversDisputed
    /\ ~audit.now.applied_repeated
          => /\ HeldEqualsDisputed
             /\ \A c \in ClientIds :
                   Acct(clients, c).held > 0
                      => /\ DisputedOf(deposit_transactions_seen, c) # {}
                         /\ ~clients[c].locked
                               => \E t \in DisputedOf(deposit_transactions_seen, c) :
                                     Releasable(t)

\* deposit tx ids were unique and a client has just put a second deposit
\* under dispute, both amounts positive and held
C23_Witness ==
    /\ ~audit.now.applied_repeated
    /\ last.kind = DISPUTE /\ last.outcome = "applied"
    /\ Cardinality(DisputedOf(deposit_transactions_seen, last.client)) = 2
    /\ clients[last.client].held = 2

\* C24: processing a transaction whose client field is c changes the
\* available, held and locked of no client other than c, whatever its kind
\* and tx id, a tx id whose deposit record another client owns included.
C24_OtherClientsUntouched ==
    Stepped
        => \A c \in ClientIds \ {last.client} : Acct(clients, c) = Acct(prev.clients, c)

\* a client with enough available funds has just sent a Dispute on a record
\* of positive amount that another client owns
C24_Witness ==
    /\ last.kind = DISPUTE
    /\ PrevHasRecord
    /\ prev.deposits[last.tx].client # last.client
    /\ ~prev.deposits[last.tx].under_dispute
    /\ prev.deposits[last.tx].amount > 0
    /\ ~Acct(prev.clients, last.client).locked
    /\ Acct(prev.clients, last.client).available >= prev.deposits[last.tx].amount
    /\ Acct(prev.clients, prev.deposits[last.tx].client).available
          >= prev.deposits[last.tx].amount

\* C25: while no tx id has been carried by more than one Deposit of the
\* input, the account of every client c after the whole input equals the
\* account of c after only the transactions whose client is c, in their
\* order.
C25_ClientsAreIndependent ==
    ~audit.now.repeated
        => \A c \in ClientIds :
              /\ c \in DOMAIN clients <=> c \in DOMAIN solo[c].clients
              /\ Acct(clients, c) = Acct(solo[c].clients, c)

\* deposit tx ids were unique, transactions of two clients were interleaved,
\* each client had a Deposit applied, and a client with enough available
\* funds has just sent a Dispute on a record of the other client
C25_Witness ==
    /\ ~audit.now.repeated
    /\ \A c \in ClientIds : audit.now.net[c] > 0
    /\ last.kind = DISPUTE /\ last.outcome = "client_mismatch"
    /\ prev.deposits[last.tx].amount > 0
    /\ clients[last.client].available >= prev.deposits[last.tx].amount

\* C26: at most one Chargeback of a client is ever applied: once a
\* Chargeback of a client has been applied, a later Chargeback from that
\* client changes no account and no deposit record, also when another
\* deposit of that client is still under dispute, whose amount stays held.
C26_OneChargebackPerClient ==
    /\ \A c \in ClientIds : audit.now.chargebacks[c] <= 1
    /\ (last.kind = CHARGEBACK /\ audit.before.chargebacks[last.client] >= 1)
          => /\ last.outcome # "applied"
             /\ clients = prev.clients
             /\ DepositsUnchanged

\* a client that had a Chargeback applied has just sent a Chargeback on
\* another deposit of its own, still under dispute with its amount held
C26_Witness ==
    /\ last.kind = CHARGEBACK
    /\ audit.before.chargebacks[last.client] = 1
    /\ PrevHasRecord
    /\ prev.deposits[last.tx].client = last.client
    /\ prev.deposits[last.tx].under_dispute
    /\ prev.deposits[last.tx].amount > 0
    /\ clients[last.client].held >= prev.deposits[last.tx].amount

=============================================================================
